---- MODULE Spec2Model ----
(***************************************************************************)
(* Model of the voice-ops event ingestion pipeline                         *)
(* (backend/voiceops/event_handler.py over the tables of models.py).       *)
(*                                                                         *)
(* process_and_emit_event is modelled per caller (Procs) as a sequence of  *)
(* steps: the emit to the Socket.IO server, then store_event_in_database   *)
(* split at its database statements (SELECT / INSERT / UPDATE), which is   *)
(* where concurrent callers interleave.                                    *)
(***************************************************************************)
EXTENDS Naturals, Sequences, FiniteSets, TLC

----------------------------------------------------------------------------
(* Bounds *)

\* Total number of process_and_emit_event calls in one behaviour.
MaxIngests == 3

----------------------------------------------------------------------------
(* Values *)

\* Python None / SQL NULL.
None == "<None>"

\* Python True and False, as the values a call returns.
True == "True"
False == "False"

\* Concurrent callers of process_and_emit_event.
Procs == {1, 2}

\* `not v` in Python for the str-or-None values read from a payload.
Falsy(v) == v = None \/ v = ""

\* Substrings of the payload's `type` that the code tests with `in`.
ErrorMarker == "error-logs.error.logged"
CallMarkers == {"call.initiated", "call.ringing", "call.answer", "call.completed"}

\* A payload: `type` is the set of markers its type string contains; `time`
\* is the raw time string ("" when the key is absent); the five request
\* parameters are None when absent; correlation_sid is "" when absent.
MkPayload(id, type, time, sid, from, to, dir, status, corr) ==
    [id |-> id, type |-> type, time |-> time, CallSid |-> sid, From |-> from,
     To |-> to, Direction |-> dir, CallStatus |-> status, correlation_sid |-> corr]

NoPayload == MkPayload("", {}, "", None, None, None, None, None, "")

pInitiated == MkPayload("E1", {"call.initiated"}, "2024-01-01T00:00:00Z",
                        "CA1", "+1555", "+1777", "inbound", "queued", "")
pRinging   == MkPayload("E2", {"call.ringing"}, "2024-01-01T00:00:05Z",
                        "CA1", "+1777", None, "outbound", "ringing", "")
pAnswered  == MkPayload("E3", {"call.answer"}, "2024-01-01T00:00:09Z",
                        "CA1", "", "+1777", "", None, "")
pError     == MkPayload("E4", {ErrorMarker}, "2024-01-01T00:00:07Z",
                        None, None, None, None, None, "CA1")
pErrorCall == MkPayload("E5", {ErrorMarker, "call.initiated"}, "2024-01-01T00:00:08Z",
                        "CA1", "+1555", "+1777", "inbound", "queued", "CA1")
pNoSid     == MkPayload("E6", {"call.completed"}, "2024-01-01T00:00:09Z",
                        None, "+1555", "+1777", "inbound", "completed", "")

Payloads == {pInitiated, pRinging, pAnswered, pError, pErrorCall, pNoSid}

\* Payloads whose type holds none of the markers.
pUnknown      == MkPayload("E7", {}, "2024-01-01T00:00:07Z",
                           "CA1", "+1555", "+1777", "inbound", "busy", "")
pUnknownNoSid == MkPayload("E8", {}, "2024-01-01T00:00:08Z",
                           None, "+1555", "+1777", "inbound", "busy", "")

\* A call event of a second call.
pCompleted2 == MkPayload("E9", {"call.completed"}, "2024-01-01T00:00:08Z",
                         "CA2", "+1666", "+1888", "inbound", "completed", "")

\* Call events without a usable time: the key absent, and a string that is no
\* ISO 8601 datetime.
pNoTime  == MkPayload("E10", {"call.initiated"}, "",
                      "CA1", "+1555", "+1777", "inbound", "queued", "")
pBadTime == MkPayload("E13", {"call.completed"}, "yesterday",
                      "CA1", "+1555", "+1777", "inbound", "completed", "")

\* Error events without correlation_sid.
pErrNoCorr       == MkPayload("E11", {ErrorMarker}, "2024-01-01T00:00:05Z",
                              None, None, None, None, None, "")
pErrorCallNoCorr == MkPayload("E12", {ErrorMarker, "call.ringing"},
                              "2024-01-01T00:00:05Z",
                              None, None, None, None, None, "")

\* The payloads of the one-caller specifications.
SeqPayloads ==
    Payloads \cup {pUnknown, pUnknownNoSid, pCompleted2, pNoTime, pBadTime,
                   pErrNoCorr, pErrorCallNoCorr}

----------------------------------------------------------------------------
(* State *)

VARIABLES
    calls,      \* table `calls`: set of Call rows
    events,     \* the five event tables: set of rows tagged with their table
    pc,         \* pc[self]: position of caller self in process_and_emit_event
    cur,        \* cur[self]: event_data of the current (or last) call
    loc,        \* loc[self]: locals of store_event_in_database / get_or_create_call
    stored,     \* stored[self]: `success` as returned by store_event_in_database
                \* in the current call (None: it has not returned)
    result,     \* result[self]: value returned by the last call (None while running)
    emits,      \* emits[self]: what the current call has emitted through sio
    before,     \* before[self]: the tables etc. as they were when the call started
    lastStatus, \* lastStatus[sid]: CallStatus of the latest call event handed to
                \* the persistence step for sid with a non-empty CallStatus
    ingests,    \* number of calls started so far
    web,        \* the webhook view: the requests answered and the files written
    slack,      \* the alert notifier: the clock, the calls made and the
                \* notification requests sent to Slack
    elapsed,    \* elapsed[self]: seconds gone by since the current call started
    api         \* the query endpoints: the last request and its response

vars == <<calls, events, pc, cur, loc, stored, result, emits, before, lastStatus,
          ingests, web, slack, elapsed, api>>

\* Call identifiers the payloads name.
CallSids == {"CA1", "CA2"}

\* before[self]: the tables, the caller's previous payload and what it emitted
\* then, the number of this call, and whether no other call was running.
NoBefore == [calls |-> {}, events |-> {}, prev |-> NoPayload, prevEmits |-> <<>>,
             no |-> 0, quiet |-> TRUE]

\* created_at of a Call object that has not been inserted yet.
NoTime == 0

\* `call = None` / `error_call = None`: no Call object (its key is None).
NoCall == [call_sid |-> None, direction |-> None, from_number |-> None,
           to_number |-> None, call_status |-> None, created_at |-> NoTime,
           additional_data |-> [note |-> ""]]

NoLoc == [call |-> NoCall, created |-> FALSE]

\* No request answered, no event_logs file written.
NoWeb == [log |-> <<>>, files |-> <<>>]

\* No query answered yet.
NoApi == [endpoint |-> None, arg |-> None, status |-> 0, error |-> "",
          events |-> <<>>]

\* The clock at midnight UTC, no alert call made, no request sent to Slack.
NoSlack == [clock |-> 0, log |-> <<>>, posts |-> <<>>]

Init ==
    /\ calls = {}
    /\ events = {}
    /\ pc = [self \in Procs |-> "idle"]
    /\ cur = [self \in Procs |-> NoPayload]
    /\ loc = [self \in Procs |-> NoLoc]
    /\ stored = [self \in Procs |-> None]
    /\ result = [self \in Procs |-> None]
    /\ emits = [self \in Procs |-> <<>>]
    /\ before = [self \in Procs |-> NoBefore]
    /\ lastStatus = [sid \in CallSids |-> None]
    /\ ingests = 0
    /\ web = NoWeb
    /\ slack = NoSlack
    /\ elapsed = [self \in Procs |-> 0]
    /\ api = NoApi

----------------------------------------------------------------------------
(* Pure helpers *)

\* django.utils.dateparse.parse_datetime as used at store_event_in_database:
\* a well-formed string parses to an instant (seconds after 2024-01-01T00:00Z),
\* anything not matching the format ("" for an absent key) gives None.
NoDatetime == [null |-> TRUE, secs |-> 0]
parse_datetime(s) ==
    CASE s = "2024-01-01T00:00:00Z" -> [null |-> FALSE, secs |-> 0]
      [] s = "2024-01-01T00:00:05Z" -> [null |-> FALSE, secs |-> 5]
      [] s = "2024-01-01T00:00:07Z" -> [null |-> FALSE, secs |-> 7]
      [] s = "2024-01-01T00:00:08Z" -> [null |-> FALSE, secs |-> 8]
      [] s = "2024-01-01T00:00:09Z" -> [null |-> FALSE, secs |-> 9]
      [] OTHER -> NoDatetime

\* A well-formed string naming no real instant makes parse_datetime raise.
ParseRaises(s) == s = "2024-13-01T00:00:00Z"

\* is_error = 'error-logs.error.logged' in event_type_full
IsError(p) == ErrorMarker \in p.type

\* Faulty variant of StoreEventType: the answered and completed branches have
\* each other's table.
StoreEventTypeSwapped(p) ==
    IF "call.initiated" \in p.type THEN "initiated"
    ELSE IF "call.ringing" \in p.type THEN "ringing"
    ELSE IF "call.answer" \in p.type THEN "completed"
    ELSE IF "call.completed" \in p.type THEN "answered"
    ELSE IF IsError(p) THEN "error"
    ELSE None

\* The if/elif chain that picks the table in store_event_in_database.
StoreEventType(p) ==
    IF "call.initiated" \in p.type THEN "initiated"
    ELSE IF "call.ringing" \in p.type THEN "ringing"
    ELSE IF "call.answer" \in p.type THEN "answered"
    ELSE IF "call.completed" \in p.type THEN "completed"
    ELSE IF IsError(p) THEN "error"
    ELSE None

\* The if/elif chain of the call branch of process_and_emit_event.
EmitEventType(p) ==
    IF "call.initiated" \in p.type THEN "initiated"
    ELSE IF "call.ringing" \in p.type THEN "ringing"
    ELSE IF "call.answer" \in p.type THEN "answered"
    ELSE IF "call.completed" \in p.type THEN "completed"
    ELSE None

\* dict.get(key, '') for a parameter that may be absent.
GetOrEmpty(v) == IF v = None THEN "" ELSE v

\* event_data.get('time') or datetime.now().isoformat()
EmitTimestamp(p) == IF Falsy(p.time) THEN "now" ELSE p.time

\* Faulty variant of Projection: the channel follows the table chosen by the
\* persistence step, where the call markers are tested before the error marker.
ProjectionByStoreType(p) ==
    IF StoreEventType(p) = "error"
    THEN [channel |-> "new_error", event_id |-> p.id, sid |-> p.correlation_sid,
          timestamp |-> EmitTimestamp(p), direction |-> "", event_type |-> "error",
          from_number |-> "", to_number |-> "", call_status |-> ""]
    ELSE [channel |-> "new_event", event_id |-> p.id, sid |-> p.CallSid,
          timestamp |-> EmitTimestamp(p), direction |-> GetOrEmpty(p.Direction),
          event_type |-> EmitEventType(p),
          from_number |-> GetOrEmpty(p.From), to_number |-> GetOrEmpty(p.To),
          call_status |-> GetOrEmpty(p.CallStatus)]

\* The projection handed to sio.emit, with its channel.
Projection(p) ==
    IF IsError(p)
    THEN [channel |-> "new_error", event_id |-> p.id, sid |-> p.correlation_sid,
          timestamp |-> EmitTimestamp(p), direction |-> "", event_type |-> "error",
          from_number |-> "", to_number |-> "", call_status |-> ""]
    ELSE [channel |-> "new_event", event_id |-> p.id, sid |-> p.CallSid,
          timestamp |-> EmitTimestamp(p), direction |-> GetOrEmpty(p.Direction),
          event_type |-> EmitEventType(p),
          from_number |-> GetOrEmpty(p.From), to_number |-> GetOrEmpty(p.To),
          call_status |-> GetOrEmpty(p.CallStatus)]

\* Faulty variant of Emitted: the call goes on to the persistence step without
\* the projection having been sent.
EmittedNothing(log, proj) == log

\* What subscribers have been sent once sio.emit(channel, data) returns.
Emitted(log, proj) == Append(log, proj)

\* Rows of table `calls` with primary key sid.
CallRows(tbl, sid) == {c \in tbl : c.call_sid = sid}

\* Faulty variant of CallPkFree: call_sid carries no uniqueness constraint.
CallPkUnchecked(tbl, sid) == TRUE

\* call_sid is the primary key of Call: an INSERT is accepted only if no row
\* holds the key.
CallPkFree(tbl, sid) == CallRows(tbl, sid) = {}

\* event_id is the primary key of each event table.
EventRows(tbl, table, id) == {e \in tbl : e.table = table /\ e.event_id = id}
EventPkFree(tbl, table, id) == EventRows(tbl, table, id) = {}

\* The foreign key of an event row: NULL, or the key of a Call row.
FkOk(tbl, sid) == sid = None \/ CallRows(tbl, sid) # {}

\* Faulty variant of CascadeDelete: the rows referencing the Call are left.
KeepDependents(tbl, sid) == tbl

\* on_delete=CASCADE: the event rows left when Call sid is deleted.
CascadeDelete(tbl, sid) == {e \in tbl : e.call_sid # sid}

\* The defaults of Call.objects.get_or_create in get_or_create_call.
NewCall(p) ==
    [call_sid |-> p.CallSid, direction |-> p.Direction, from_number |-> p.From,
     to_number |-> p.To, call_status |-> GetOrEmpty(p.CallStatus),
     created_at |-> NoTime, additional_data |-> p]

\* created_at is auto_now_add: the INSERT of a Call stamps it with the current
\* time (the number of the latest call started), whatever the object held.
Inserted(c, now) == [c EXCEPT !.created_at = now]

\* direction, from_number and to_number are NOT NULL columns.
CallNotNullOk(c) ==
    c.direction # None /\ c.from_number # None /\ c.to_number # None

\* Faulty variant of MergeCall: every supplied field overwrites the stored one.
MergeCallOverwrite(c, p) ==
    [c EXCEPT
       !.from_number = IF ~Falsy(p.From) THEN p.From ELSE @,
       !.to_number   = IF ~Falsy(p.To) THEN p.To ELSE @,
       !.direction   = IF ~Falsy(p.Direction) THEN p.Direction ELSE @,
       !.call_status = IF ~Falsy(GetOrEmpty(p.CallStatus)) THEN p.CallStatus ELSE @]

\* Faulty variant of MergeCall: the latest payload replaces additional_data.
MergeCallKeepsLatest(c, p) ==
    [c EXCEPT
       !.additional_data = p,
       !.call_status = IF ~Falsy(GetOrEmpty(p.CallStatus)) THEN p.CallStatus ELSE @]

\* Faulty variant of MergeCall: a supplied Direction also replaces the
\* direction 'unknown' of a placeholder.
MergeCallResolvesUnknown(c, p) ==
    [c EXCEPT
       !.from_number = IF ~Falsy(p.From) /\ Falsy(c.from_number) THEN p.From ELSE @,
       !.to_number   = IF ~Falsy(p.To) /\ Falsy(c.to_number) THEN p.To ELSE @,
       !.direction   = IF ~Falsy(p.Direction) /\ (Falsy(c.direction) \/ c.direction = "unknown")
                       THEN p.Direction ELSE @,
       !.call_status = IF ~Falsy(GetOrEmpty(p.CallStatus)) THEN p.CallStatus ELSE @]

\* The `if not created:` block of get_or_create_call, on the in-memory object.
MergeCall(c, p) ==
    [c EXCEPT
       !.from_number = IF ~Falsy(p.From) /\ Falsy(c.from_number) THEN p.From ELSE @,
       !.to_number   = IF ~Falsy(p.To) /\ Falsy(c.to_number) THEN p.To ELSE @,
       !.direction   = IF ~Falsy(p.Direction) /\ Falsy(c.direction) THEN p.Direction ELSE @,
       !.call_status = IF ~Falsy(GetOrEmpty(p.CallStatus)) THEN p.CallStatus ELSE @]

\* call.save(): UPDATE of every column of the row with the object's key
\* (INSERT when no such row is left).
SaveCall(tbl, c) == (tbl \ CallRows(tbl, c.call_sid)) \cup {c}

\* The placeholder Call made for an error event's correlation_sid.
PlaceholderCall(sid) ==
    [call_sid |-> sid, direction |-> "unknown", from_number |-> "",
     to_number |-> "", call_status |-> "", created_at |-> NoTime,
     additional_data |-> [note |-> "Created from error event correlation_sid"]]

\* A row of one of the four call-event tables or of error_events; call_sid is
\* the foreign key (None when the ErrorEvent references no call).
EventRow(table, p, callSid) ==
    [table |-> table, event_id |-> p.id, call_sid |-> callSid,
     timestamp |-> parse_datetime(p.time), additional_data |-> p]

\* Faulty variant of AfterCall: an unknown event type is stored like a call event.
AfterCallStoresUnknown(p) ==
    IF StoreEventType(p) = "error" THEN "err_select" ELSE "insert_event"

\* pc after the Call has been resolved: the branch on event_type.
AfterCall(p) ==
    IF StoreEventType(p) = "error" THEN "err_select"
    ELSE IF StoreEventType(p) = None THEN "idle"
    ELSE "insert_event"

----------------------------------------------------------------------------
(* Actions: one call of process_and_emit_event by caller self *)

\* store_event_in_database returns (success, call); process_and_emit_event
\* returns success.
Return(self, success) ==
    /\ pc' = [pc EXCEPT ![self] = "idle"]
    /\ stored' = [stored EXCEPT ![self] = success]
    /\ result' = [result EXCEPT ![self] = success]

\* Exceptions the steps of a call raise; all are subclasses of Exception.
Exceptions == {"ValueError", "IntegrityError", "AttributeError", "RuntimeError"}

\* `except Exception` of store_event_in_database.
StoreCatches(exc) == exc \in Exceptions

\* Faulty variant of OuterCatches: process_and_emit_event has no handler.
OuterCatchesNothing(exc) == FALSE

\* `except Exception` of process_and_emit_event.
OuterCatches(exc) == exc \in Exceptions

\* exc is raised, inside store_event_in_database (which then returns
\* (False, None)) or in process_and_emit_event itself (which then returns
\* False); an exception no handler catches leaves the call through its caller.
Raise(self, exc, inStore) ==
    IF inStore /\ StoreCatches(exc)
    THEN Return(self, False)
    ELSE IF OuterCatches(exc)
    THEN /\ pc' = [pc EXCEPT ![self] = "idle"]
         /\ result' = [result EXCEPT ![self] = False]
         /\ UNCHANGED stored
    ELSE /\ pc' = [pc EXCEPT ![self] = "escaped"]
         /\ UNCHANGED <<stored, result>>

\* Continue at AfterCall; an unknown event type returns True at once.
Continue(self, next) ==
    IF next = "idle"
    THEN Return(self, True)
    ELSE pc' = [pc EXCEPT ![self] = next] /\ UNCHANGED <<stored, result>>

\* A caller invokes process_and_emit_event(event_data).
Start(self, p) ==
    /\ pc[self] = "idle"
    /\ ingests < MaxIngests
    /\ ingests' = ingests + 1
    /\ pc' = [pc EXCEPT ![self] = "emit"]
    /\ before' = [before EXCEPT ![self] =
                    [calls |-> calls, events |-> events, prev |-> cur[self],
                     prevEmits |-> emits[self], no |-> ingests + 1,
                     quiet |-> \A other \in Procs : pc[other] = "idle"]]
    /\ cur' = [cur EXCEPT ![self] = p]
    /\ loc' = [loc EXCEPT ![self] = NoLoc]
    /\ stored' = [stored EXCEPT ![self] = None]
    /\ result' = [result EXCEPT ![self] = None]
    /\ emits' = [emits EXCEPT ![self] = <<>>]
    /\ elapsed' = [elapsed EXCEPT ![self] = 0]
    /\ UNCHANGED <<calls, events, lastStatus, web, slack, api>>

\* A caller invokes process_and_emit_event with event_data that is not a
\* mapping (a JSON list, say): event_data.get at the top of the try block
\* raises AttributeError.
StartNotMapping(self) ==
    /\ pc[self] = "idle"
    /\ ingests < MaxIngests
    /\ ingests' = ingests + 1
    /\ before' = [before EXCEPT ![self] =
                    [calls |-> calls, events |-> events, prev |-> cur[self],
                     prevEmits |-> emits[self], no |-> ingests + 1,
                     quiet |-> \A other \in Procs : pc[other] = "idle"]]
    /\ cur' = [cur EXCEPT ![self] = NoPayload]
    /\ loc' = [loc EXCEPT ![self] = NoLoc]
    /\ emits' = [emits EXCEPT ![self] = <<>>]
    /\ pc' = [pc EXCEPT ![self] =
                IF OuterCatches("AttributeError") THEN "idle" ELSE "escaped"]
    /\ result' = [result EXCEPT ![self] =
                    IF OuterCatches("AttributeError") THEN False ELSE None]
    /\ stored' = [stored EXCEPT ![self] = None]
    /\ elapsed' = [elapsed EXCEPT ![self] = 0]
    /\ UNCHANGED <<calls, events, lastStatus, web, slack, api>>

\* await sio.emit('new_error' | 'new_event', data) returns.
Emit(self) ==
    /\ pc[self] = "emit"
    /\ emits' = [emits EXCEPT ![self] = Emitted(@, Projection(cur[self]))]
    /\ pc' = [pc EXCEPT ![self] = "store"]
    /\ UNCHANGED <<calls, events, cur, loc, stored, result, before, lastStatus,
                   ingests, web, slack, elapsed, api>>

\* await sio.emit(...) raises: the except block of process_and_emit_event
\* returns False.
EmitRaises(self) ==
    /\ pc[self] = "emit"
    /\ Raise(self, "RuntimeError", FALSE)
    /\ UNCHANGED <<calls, events, cur, loc, emits, before, lastStatus,
                   ingests, web, slack, elapsed, api>>

\* The latest non-empty CallStatus handed to get_or_create_call for a call.
NoteStatus(last, p) ==
    IF ~IsError(p) /\ ~Falsy(p.CallSid) /\ ~Falsy(p.CallStatus)
    THEN [last EXCEPT ![p.CallSid] = p.CallStatus]
    ELSE last

\* store_event_in_database up to and including the first database statement
\* of get_or_create_call (the SELECT of get_or_create).
StoreBegin(self) ==
    LET p == cur[self] IN
    /\ pc[self] = "store"
    /\ IF ParseRaises(p.time)
       THEN Raise(self, "ValueError", TRUE) /\ UNCHANGED <<loc, lastStatus>>
       ELSE IF IsError(p)
       THEN Continue(self, AfterCall(p)) /\ UNCHANGED <<loc, lastStatus>>
       ELSE IF Falsy(p.CallSid)
       THEN Raise(self, "ValueError", TRUE) /\ UNCHANGED <<loc, lastStatus>>
       ELSE /\ lastStatus' = NoteStatus(lastStatus, p)
            /\ IF CallPkFree(calls, p.CallSid)
               THEN /\ pc' = [pc EXCEPT ![self] = "goc_insert"]
                    /\ UNCHANGED <<loc, stored, result>>
               ELSE /\ loc' = [loc EXCEPT ![self] =
                                [call |-> CHOOSE c \in CallRows(calls, p.CallSid) : TRUE,
                                 created |-> FALSE]]
                    /\ pc' = [pc EXCEPT ![self] = "save"]
                    /\ UNCHANGED <<stored, result>>
    /\ UNCHANGED <<calls, events, cur, emits, before, ingests, web, slack, elapsed, api>>

\* The INSERT of get_or_create. A key taken meanwhile makes get_or_create fall
\* back to the existing row; a NULL in a NOT NULL column raises IntegrityError.
GocInsert(self) ==
    LET p == cur[self] IN
    /\ pc[self] = "goc_insert"
    /\ IF ~CallPkFree(calls, p.CallSid)
       THEN /\ loc' = [loc EXCEPT ![self] =
                        [call |-> CHOOSE c \in CallRows(calls, p.CallSid) : TRUE,
                         created |-> FALSE]]
            /\ pc' = [pc EXCEPT ![self] = "save"]
            /\ UNCHANGED <<calls, stored, result>>
       ELSE IF ~CallNotNullOk(NewCall(p))
       THEN Raise(self, "IntegrityError", TRUE) /\ UNCHANGED <<calls, loc>>
       ELSE /\ calls' = calls \cup {Inserted(NewCall(p), ingests)}
            /\ loc' = [loc EXCEPT ![self] =
                        [call |-> Inserted(NewCall(p), ingests), created |-> TRUE]]
            /\ Continue(self, AfterCall(p))
    /\ UNCHANGED <<events, cur, emits, before, lastStatus, ingests, web, slack, elapsed, api>>

\* The `if not created:` block: merge into the object read earlier, call.save().
\* When the row is gone the save is an INSERT, which stamps created_at anew.
Save(self) ==
    LET p == cur[self]
        merged == MergeCall(loc[self].call, p)
        saved == IF CallPkFree(calls, merged.call_sid)
                 THEN Inserted(merged, ingests) ELSE merged IN
    /\ pc[self] = "save"
    /\ calls' = SaveCall(calls, saved)
    /\ loc' = [loc EXCEPT ![self].call = saved]
    /\ Continue(self, AfterCall(p))
    /\ UNCHANGED <<events, cur, emits, before, lastStatus, ingests, web, slack, elapsed, api>>

\* Faulty variant of AfterStoreFailure: the statements of the failed call are
\* undone, as if store_event_in_database ran in a transaction.
RolledBack(tbl, snapshot) == snapshot

\* The Call table once the except block of store_event_in_database has run,
\* snapshot being the table when the call started: the function opens no
\* transaction, each statement was committed on its own and stays.
AfterStoreFailure(tbl, snapshot) == tbl

\* <Kind>Event.objects.create(...) for the four call-event tables: the INSERT
\* fails on a taken event_id, a NULL timestamp, a NULL call reference or a
\* reference to a Call that is no longer there.
InsertEvent(self) ==
    LET p == cur[self]
        table == StoreEventType(p)
        call == loc[self].call
        row == EventRow(table, p, call.call_sid) IN
    /\ pc[self] = "insert_event"
    /\ IF /\ EventPkFree(events, table, p.id)
          /\ ~row.timestamp.null
          /\ call.call_sid # None
          /\ FkOk(calls, call.call_sid)
       THEN events' = events \cup {row} /\ Return(self, True) /\ UNCHANGED calls
       ELSE /\ Raise(self, "IntegrityError", TRUE)
            /\ calls' = AfterStoreFailure(calls, before[self].calls)
            /\ UNCHANGED events
    /\ UNCHANGED <<cur, loc, emits, before, lastStatus, ingests, web, slack, elapsed, api>>

\* Error branch: Call.objects.get(call_sid=correlation_sid).
ErrSelect(self) ==
    LET p == cur[self] IN
    /\ pc[self] = "err_select"
    /\ IF Falsy(p.correlation_sid)
       THEN /\ pc' = [pc EXCEPT ![self] = "err_event"]
            /\ UNCHANGED loc
       ELSE IF CallPkFree(calls, p.correlation_sid)
       THEN /\ pc' = [pc EXCEPT ![self] = "err_create"]
            /\ UNCHANGED loc
       ELSE /\ loc' = [loc EXCEPT ![self].call =
                        CHOOSE c \in CallRows(calls, p.correlation_sid) : TRUE]
            /\ pc' = [pc EXCEPT ![self] = "err_event"]
    /\ UNCHANGED <<calls, events, cur, stored, result, emits, before, lastStatus,
                   ingests, web, slack, elapsed, api>>

\* Error branch: Call.objects.create(...) of the placeholder.
ErrCreate(self) ==
    LET p == cur[self] IN
    /\ pc[self] = "err_create"
    /\ IF CallPkFree(calls, p.correlation_sid)
       THEN /\ calls' = calls \cup {Inserted(PlaceholderCall(p.correlation_sid), ingests)}
            /\ loc' = [loc EXCEPT ![self].call =
                        Inserted(PlaceholderCall(p.correlation_sid), ingests)]
            /\ pc' = [pc EXCEPT ![self] = "err_event"]
            /\ UNCHANGED <<stored, result>>
       ELSE Raise(self, "IntegrityError", TRUE) /\ UNCHANGED <<calls, loc>>
    /\ UNCHANGED <<events, cur, emits, before, lastStatus, ingests, web, slack, elapsed, api>>

\* Error branch: ErrorEvent.objects.create(...); resource_sid may be NULL.
ErrInsert(self) ==
    LET p == cur[self]
        call == loc[self].call
        row == EventRow("error", p, call.call_sid) IN
    /\ pc[self] = "err_event"
    /\ IF /\ EventPkFree(events, "error", p.id)
          /\ ~row.timestamp.null
          /\ FkOk(calls, call.call_sid)
       THEN events' = events \cup {row} /\ Return(self, True)
       ELSE Raise(self, "IntegrityError", TRUE) /\ UNCHANGED events
    /\ UNCHANGED <<calls, cur, loc, emits, before, lastStatus, ingests, web, slack, elapsed, api>>

\* The steps of a call that has started.
Run(self) ==
    \/ Emit(self)
    \/ EmitRaises(self)
    \/ StoreBegin(self)
    \/ GocInsert(self)
    \/ Save(self)
    \/ InsertEvent(self)
    \/ ErrSelect(self)
    \/ ErrCreate(self)
    \/ ErrInsert(self)

Step(self) ==
    \/ \E p \in Payloads : Start(self, p)
    \/ StartNotMapping(self)
    \/ Run(self)

\* The admin site deletes Call sid: the Call row and, by on_delete=CASCADE,
\* every event row referencing it go in one transaction.
DeleteCall(sid) ==
    /\ CallRows(calls, sid) # {}
    /\ calls' = calls \ CallRows(calls, sid)
    /\ events' = CascadeDelete(events, sid)
    /\ UNCHANGED <<pc, cur, loc, stored, result, emits, before, lastStatus,
                   ingests, web, slack, elapsed, api>>

\* Concurrent callers.
Next == \E self \in Procs : Step(self)
Spec == Init /\ [][Next]_vars

\* A second Error event for the call pError names, and the payloads of two
\* callers that meet in the error branch.
pError2 == MkPayload("E14", {ErrorMarker}, "2024-01-01T00:00:09Z", None, None, None,
                     None, None, "CA1")
ErrPayloads == {pInitiated, pError, pError2}

\* Concurrent callers handling the Error events of one call.
NextErr ==
    \E self \in Procs :
        \/ \E p \in ErrPayloads : Start(self, p)
        \/ Run(self)
SpecErr == Init /\ [][NextErr]_vars

\* One caller: calls are processed one after the other.
NextSeq ==
    \/ \E p \in SeqPayloads : Start(1, p)
    \/ StartNotMapping(1)
    \/ Run(1)
SpecSeq == Init /\ [][NextSeq]_vars

\* Seconds a call can be seen to take.
MaxElapsed == 3

\* A second goes by while the call of self is running (the emit and the
\* database statements are awaited).
TimePasses(self) ==
    /\ pc[self] \notin {"idle", "escaped"}
    /\ elapsed[self] < MaxElapsed
    /\ elapsed' = [elapsed EXCEPT ![self] = @ + 1]
    /\ UNCHANGED <<calls, events, pc, cur, loc, stored, result, emits, before,
                   lastStatus, ingests, web, slack, api>>

\* One caller, whose calls take time.
NextTimed ==
    \/ NextSeq
    \/ TimePasses(1)
SpecTimed == Init /\ [][NextTimed]_vars

\* One caller, and an administrator deleting Calls at any moment.
NextAdmin ==
    \/ NextSeq
    \/ \E sid \in CallSids : DeleteCall(sid)
SpecAdmin == Init /\ [][NextAdmin]_vars

----------------------------------------------------------------------------
(* The webhook view twilio_events_webhook *)

\* Requests answered in one behaviour.
MaxRequests == 2

\* HTTP statuses the view answers with.
NoContent == 204
BadRequest == 400
ServerError == 500

\* Content types of the requests.
ContentTypes == {"application/json", "application/json; charset=utf-8",
                 "application/x-www-form-urlencoded"}

\* 'application/json' in content_type
DeclaresJson(ct) == ct \in {"application/json", "application/json; charset=utf-8"}

\* Request bodies: a JSON text, a text that is not JSON, the single byte 0xFF
\* (not UTF-8), and a form-encoded body.
Bodies == {"{\"id\": \"E1\"}", "{bad", "<0xFF>", "id=E1"}

\* json.loads(request.body): bytes are decoded as UTF-8 first (a byte that is
\* not UTF-8 raises UnicodeDecodeError, a ValueError that is no
\* JSONDecodeError), then parsed (JSONDecodeError on a text that is not JSON).
json_loads(body) ==
    CASE body = "{\"id\": \"E1\"}" -> [exc |-> None, data |-> "{id: E1}"]
      [] body = "<0xFF>" -> [exc |-> "UnicodeDecodeError", data |-> None]
      [] OTHER -> [exc |-> "JSONDecodeError", data |-> None]

\* dict(request.POST): the form fields of a form-encoded body, else empty.
request_POST(body) ==
    IF body = "id=E1" THEN [exc |-> None, data |-> "{id: [E1]}"]
    ELSE [exc |-> None, data |-> "{}"]

\* The first part of the try block: the payload read from the request.
ReadData(ct, body) ==
    IF DeclaresJson(ct) THEN json_loads(body) ELSE request_POST(body)

\* `except Exception` of the view: UnicodeDecodeError and OSError are
\* subclasses of Exception.
ViewCatches(exc) == exc \in {"JSONDecodeError", "UnicodeDecodeError", "OSError"}

\* The end of the view: return HttpResponse(status=204), or one of the two
\* except clauses (json.JSONDecodeError first, then Exception).
Answer(exc) ==
    IF exc = None THEN [status |-> NoContent, escaped |-> FALSE]
    ELSE IF exc = "JSONDecodeError" THEN [status |-> BadRequest, escaped |-> FALSE]
    ELSE IF ViewCatches(exc) THEN [status |-> ServerError, escaped |-> FALSE]
    ELSE [status |-> None, escaped |-> TRUE]

\* POST of a request: the whole view. fs is what the file system does when
\* the view makes the event_logs directory and writes the file.
Webhook(ct, body, fs) ==
    LET read == ReadData(ct, body)
        exc == IF read.exc # None THEN read.exc ELSE fs
        answer == Answer(exc) IN
    /\ Len(web.log) < MaxRequests
    /\ web' = [log |-> Append(web.log,
                        [content_type |-> ct, body |-> body, exc |-> exc,
                         status |-> answer.status, escaped |-> answer.escaped]),
               files |-> IF exc = None THEN Append(web.files, read.data)
                         ELSE web.files]
    /\ UNCHANGED <<calls, events, pc, cur, loc, stored, result, emits, before,
                   lastStatus, ingests, slack, elapsed, api>>

NextWeb ==
    \E ct \in ContentTypes, body \in Bodies, fs \in {None, "OSError"} :
        Webhook(ct, body, fs)
SpecWeb == Init /\ [][NextWeb]_vars

----------------------------------------------------------------------------
(* The alert notifier send_performance_alert *)

\* Calls of send_performance_alert in one behaviour.
MaxAlerts == 1

\* The clock counts half hours of the UTC day.
HalfHoursPerDay == 48

\* Asia/Kolkata is UTC+05:30 all year: eleven half hours ahead.
KolkataOffset == 11

\* Business hours: 9 AM to 5 PM IST.
BusinessOpen == 9
BusinessClose == 17

\* datetime.now(ist).hour at clock time c.
KolkataHour(c) == ((c + KolkataOffset) % HalfHoursPerDay) \div 2

\* Faulty variant of is_business_hours: the window is never closed.
AlwaysBusinessHours(c) == TRUE

\* is_business_hours(): 9 <= current_hour < 17.
is_business_hours(c) ==
    BusinessOpen <= KolkataHour(c) /\ KolkataHour(c) < BusinessClose

\* The alert types send_performance_alert builds a message for.
AlertTypes == {"slow_processing", "no_events"}

\* What the call of requests.post does: Slack answers ok, answers not ok, or
\* the request raises.
PostOutcomes == {"ok", "not_ok", "raises"}

\* Time passes by half an hour.
Tick ==
    /\ slack' = [slack EXCEPT !.clock = (@ + 1) % HalfHoursPerDay]
    /\ UNCHANGED <<calls, events, pc, cur, loc, stored, result, emits, before,
                   lastStatus, ingests, web, elapsed, api>>

\* Faulty variant of PostReturn: the answer of Slack is not looked at.
PostReturnOptimistic(outcome) == True

\* What both notifier functions return after requests.post: True when Slack
\* answered ok, False when it answered not ok, and False from the
\* `except Exception` block when the request raised.
PostReturn(outcome) == IF outcome = "ok" THEN True ELSE False

\* A call of a notifier function as recorded in slack.log; outcome is None
\* when the function returned before requests.post.
AlertCall(fn, alert_type, posted, outcome, returned) ==
    [fn |-> fn, clock |-> slack.clock, alert_type |-> alert_type,
     posted |-> posted, outcome |-> IF posted THEN outcome ELSE None,
     returned |-> returned]

\* slack after a call of a notifier function: the call is logged and, when it
\* got as far as requests.post, the one request it made is recorded.
AfterAlertCall(call) ==
    [clock |-> slack.clock,
     log |-> Append(slack.log, call),
     posts |-> IF call.posted
               THEN Append(slack.posts,
                      [clock |-> call.clock, alert_type |-> call.alert_type])
               ELSE slack.posts]

\* send_performance_alert(alert_type, details): the whole function. outcome is
\* what requests.post does if the function gets that far.
SendPerformanceAlert(alert_type, outcome) ==
    LET open == is_business_hours(slack.clock)
        posted == open /\ alert_type \in AlertTypes
        returned == IF posted THEN PostReturn(outcome) ELSE False IN
    /\ Len(slack.log) < MaxAlerts
    /\ slack' = AfterAlertCall(AlertCall("send_performance_alert", alert_type,
                                         posted, outcome, returned))
    /\ UNCHANGED <<calls, events, pc, cur, loc, stored, result, emits, before,
                   lastStatus, ingests, web, elapsed, api>>

\* send_slack_notification(error_data): the whole function. It is not gated
\* by the business hours; outcome is what requests.post does.
SendSlackNotification(outcome) ==
    /\ Len(slack.log) < MaxAlerts
    /\ slack' = AfterAlertCall(AlertCall("send_slack_notification", "error",
                                         TRUE, outcome, PostReturn(outcome)))
    /\ UNCHANGED <<calls, events, pc, cur, loc, stored, result, emits, before,
                   lastStatus, ingests, web, elapsed, api>>

NextAlert ==
    \/ Tick
    \/ \E alert_type \in AlertTypes \cup {"other"}, outcome \in PostOutcomes :
          SendPerformanceAlert(alert_type, outcome)
    \/ \E outcome \in PostOutcomes : SendSlackNotification(outcome)
SpecAlert == Init /\ [][NextAlert]_vars

----------------------------------------------------------------------------
(* The query endpoints of api_views.py *)

\* HTTP statuses of the query endpoints.
Ok == 200
NotFound == 404

\* The sequences a query with order_by('timestamp') can return for a set of
\* rows: every row once, timestamps ascending, rows of equal timestamp in
\* whatever order the database gives them.
Ascending(rows) ==
    {seq \in [1..Cardinality(rows) -> rows] :
        /\ \A i, j \in 1..Cardinality(rows) : i # j => seq[i] # seq[j]
        /\ \A i, j \in 1..Cardinality(rows) :
              i < j => seq[i].timestamp.secs <= seq[j].timestamp.secs}

\* <Kind>Event.objects.filter(call_sid=call): the rows of a table that
\* reference Call sid.
RowsOfCall(tbl, table, sid) == {e \in tbl : e.table = table /\ e.call_sid = sid}

\* The dictionaries appended to all_events for the rows of one query.
Tagged(seq, kind) ==
    [i \in 1..Len(seq) |->
        [event_id |-> seq[i].event_id, event_type |-> kind,
         timestamp |-> seq[i].timestamp]]

\* Faulty variant of SortByTimestamp: the merged list is returned as built.
Unsorted(seq) == seq

\* list.sort(key=lambda x: x['timestamp']): a stable ascending sort, done here
\* by inserting each element behind those not later than it.
RECURSIVE InsertByTimestamp(_, _)
InsertByTimestamp(e, seq) ==
    IF seq = <<>> THEN <<e>>
    ELSE IF e.timestamp.secs < Head(seq).timestamp.secs THEN <<e>> \o seq
    ELSE <<Head(seq)>> \o InsertByTimestamp(e, Tail(seq))

RECURSIVE SortedPrefix(_, _)
SortedPrefix(seq, n) ==
    IF n = 0 THEN <<>>
    ELSE InsertByTimestamp(seq[n], SortedPrefix(seq, n - 1))

SortByTimestamp(seq) == SortedPrefix(seq, Len(seq))

\* GET api/call-events/<call_sid>/: the whole of CallDetailEventsAPIView.get.
CallDetailGet(sid) ==
    /\ IF CallPkFree(calls, sid)
       THEN api' = [endpoint |-> "call-detail", arg |-> sid, status |-> NotFound,
                    error |-> "Call not found", events |-> <<>>]
       ELSE \E initiated \in Ascending(RowsOfCall(events, "initiated", sid)),
               ringing \in Ascending(RowsOfCall(events, "ringing", sid)),
               answered \in Ascending(RowsOfCall(events, "answered", sid)),
               completed \in Ascending(RowsOfCall(events, "completed", sid)),
               errors \in Ascending(RowsOfCall(events, "error", sid)) :
               api' = [endpoint |-> "call-detail", arg |-> sid, status |-> Ok,
                       error |-> "",
                       events |-> SortByTimestamp(
                           Tagged(initiated, "initiated") \o Tagged(ringing, "ringing")
                           \o Tagged(answered, "answered")
                           \o Tagged(completed, "completed")
                           \o Tagged(errors, "error"))]
    /\ UNCHANGED <<calls, events, pc, cur, loc, stored, result, emits, before,
                   lastStatus, ingests, web, slack, elapsed>>

\* The payloads of the specification of the query endpoints: events of two
\* calls and of no call, all of which can be stored.
ApiPayloads == {pInitiated, pAnswered, pError, pErrNoCorr, pCompleted2}

\* One caller of process_and_emit_event, and a client of the detail endpoint.
NextApi ==
    \/ \E p \in ApiPayloads : Start(1, p)
    \/ Run(1)
    \/ \E sid \in CallSids \cup {"CA9"} : CallDetailGet(sid)
SpecApi == Init /\ [][NextApi]_vars



----------------------------------------------------------------------------
(* The recent call events endpoint *)

\* The row limit of RecentCallEventsAPIView.get, which is 100 in the code,
\* scaled down so that tables with more rows than the limit can be enumerated.
RecentLimit == 2

\* Rows the event tables may hold when the endpoint is queried: three initiated
\* rows (two of them of the same instant), two ringing rows, an answered, a
\* completed and an error row, all of Call CA1.
RecentPayload(id, marker, time) ==
    MkPayload(id, {marker}, time, "CA1", "+1555", "+1777", "inbound", "queued", "")
StoredRows ==
    {EventRow("initiated", RecentPayload("E1", "call.initiated", "2024-01-01T00:00:00Z"), "CA1"),
     EventRow("initiated", RecentPayload("E21", "call.initiated", "2024-01-01T00:00:05Z"), "CA1"),
     EventRow("initiated", RecentPayload("E22", "call.initiated", "2024-01-01T00:00:05Z"), "CA1"),
     EventRow("ringing", RecentPayload("E2", "call.ringing", "2024-01-01T00:00:05Z"), "CA1"),
     EventRow("ringing", RecentPayload("E23", "call.ringing", "2024-01-01T00:00:09Z"), "CA1"),
     EventRow("answered", RecentPayload("E3", "call.answer", "2024-01-01T00:00:07Z"), "CA1"),
     EventRow("completed", RecentPayload("E9", "call.completed", "2024-01-01T00:00:08Z"), "CA1"),
     EventRow("error", pError, "CA1")}

\* The store when the endpoint is queried: Call CA1 and any of the rows above.
InitRecent ==
    /\ calls = {Inserted(NewCall(pInitiated), 1)}
    /\ events \in SUBSET StoredRows
    /\ pc = [self \in Procs |-> "idle"]
    /\ cur = [self \in Procs |-> NoPayload]
    /\ loc = [self \in Procs |-> NoLoc]
    /\ stored = [self \in Procs |-> None]
    /\ result = [self \in Procs |-> None]
    /\ emits = [self \in Procs |-> <<>>]
    /\ before = [self \in Procs |-> NoBefore]
    /\ lastStatus = [sid \in CallSids |-> None]
    /\ ingests = 0
    /\ web = NoWeb
    /\ slack = NoSlack
    /\ elapsed = [self \in Procs |-> 0]
    /\ api = NoApi

\* The sequences a query with order_by('-timestamp') can return for a set of
\* rows: every row once, newest first, rows of equal timestamp in whatever
\* order the database gives them.
Descending(rows) ==
    {seq \in [1..Cardinality(rows) -> rows] :
        /\ \A i, j \in 1..Cardinality(rows) : i # j => seq[i] # seq[j]
        /\ \A i, j \in 1..Cardinality(rows) :
              i < j => seq[i].timestamp.secs >= seq[j].timestamp.secs}

\* <Kind>Event.objects...order_by('-timestamp'): the rows of one table.
RowsOfTable(tbl, table) == {e \in tbl : e.table = table}

\* Faulty variant of Sliced: the slice keeps the end of the list.
SlicedFromEnd(seq, fetch_all) ==
    IF fetch_all \/ Len(seq) <= RecentLimit THEN seq
    ELSE SubSeq(seq, Len(seq) - RecentLimit + 1, Len(seq))

\* seq[:100] unless all=true.
Sliced(seq, fetch_all) ==
    IF fetch_all \/ Len(seq) <= RecentLimit THEN seq
    ELSE SubSeq(seq, 1, RecentLimit)

\* The dictionaries appended to all_events for the rows of one query, with the
\* fields of the Call each row references.
RecentEntries(seq, kind) ==
    [i \in 1..Len(seq) |->
        LET call == CHOOSE c \in CallRows(calls, seq[i].call_sid) : TRUE IN
        [event_id |-> seq[i].event_id, call_sid |-> call.call_sid,
         timestamp |-> seq[i].timestamp, direction |-> call.direction,
         event_type |-> kind, from_number |-> call.from_number,
         to_number |-> call.to_number, call_status |-> call.call_status]]

\* list.sort(key=lambda x: x['timestamp'], reverse=True): a stable sort,
\* newest first.
RECURSIVE InsertNewestFirst(_, _)
InsertNewestFirst(e, seq) ==
    IF seq = <<>> THEN <<e>>
    ELSE IF e.timestamp.secs > Head(seq).timestamp.secs THEN <<e>> \o seq
    ELSE <<Head(seq)>> \o InsertNewestFirst(e, Tail(seq))

RECURSIVE NewestFirstPrefix(_, _)
NewestFirstPrefix(seq, n) ==
    IF n = 0 THEN <<>>
    ELSE InsertNewestFirst(seq[n], NewestFirstPrefix(seq, n - 1))

SortNewestFirst(seq) == NewestFirstPrefix(seq, Len(seq))

\* GET api/call-events/[?all=true]: the whole of RecentCallEventsAPIView.get.
RecentCallEventsGet(fetch_all) ==
    /\ \E initiated \in Descending(RowsOfTable(events, "initiated")),
          ringing \in Descending(RowsOfTable(events, "ringing")),
          answered \in Descending(RowsOfTable(events, "answered")),
          completed \in Descending(RowsOfTable(events, "completed")) :
          api' = [endpoint |-> "recent-call-events",
                  arg |-> IF fetch_all THEN "true" ELSE "false",
                  status |-> Ok, error |-> "",
                  events |-> Sliced(SortNewestFirst(
                      RecentEntries(Sliced(initiated, fetch_all), "initiated")
                      \o RecentEntries(Sliced(ringing, fetch_all), "ringing")
                      \o RecentEntries(Sliced(answered, fetch_all), "answered")
                      \o RecentEntries(Sliced(completed, fetch_all), "completed")),
                      fetch_all)]
    /\ UNCHANGED <<calls, events, pc, cur, loc, stored, result, emits, before,
                   lastStatus, ingests, web, slack, elapsed>>

\* A client of the recent call events endpoint, over a store that is at rest.
NextRecent == \E fetch_all \in BOOLEAN : RecentCallEventsGet(fetch_all)
SpecRecent == InitRecent /\ [][NextRecent]_vars

----------------------------------------------------------------------------
(* Claims *)

\* Caller self has finished a call: it has returned and a payload is recorded.
Finished(self) == pc[self] = "idle" /\ result[self] # None

\* The finished call delivered its projection and ran the persistence step.
Persisted(self) == Finished(self) /\ stored[self] # None

\* A payload of one of the four call kinds that names its call.
IsCallEvent(p) == ~IsError(p) /\ StoreEventType(p) # None /\ ~Falsy(p.CallSid)

CallTables == {"initiated", "ringing", "answered", "completed"}

\* C1 (as claimed): whenever process_and_emit_event has run twice in a row on
\* the same call-event payload (both times reaching the persistence step),
\* there is exactly one Call row for its CallSid, exactly one row for its event
\* id in the table of its kind, and the second run left both tables as the
\* first run had left them.
C1_IngestTwiceOneCallOneEvent ==
    LET p == cur[1] IN
    (/\ Persisted(1)
     /\ before[1].no >= 2
     /\ before[1].prev = p
     /\ Len(before[1].prevEmits) = 1
     /\ IsCallEvent(p))
    => /\ Cardinality(CallRows(calls, p.CallSid)) = 1
       /\ Cardinality(EventRows(events, StoreEventType(p), p.id)) = 1
       /\ calls = before[1].calls
       /\ events = before[1].events

\* C2 (as claimed): a call whose event id is already in the table of its kind
\* when it starts, and which reaches the persistence step, returns True.
C2_DuplicateEventReturnsTrue ==
    \A self \in Procs :
        LET p == cur[self] IN
        (/\ Persisted(self)
         /\ StoreEventType(p) # None
         /\ ~EventPkFree(before[self].events, StoreEventType(p), p.id))
        => result[self] = True

\* C3 (as claimed): a call on a non-error payload without CallSid returns
\* False, has emitted nothing, and leaves the Call table and the event tables
\* as they were when it started.
C3_NoSidNoSideEffect ==
    LET p == cur[1] IN
    (Finished(1) /\ ~IsError(p) /\ Falsy(p.CallSid))
    => /\ result[1] = False
       /\ emits[1] = <<>>
       /\ calls = before[1].calls
       /\ events = before[1].events

\* Positions inside store_event_in_database.
StorePcs == {"store", "goc_insert", "save", "insert_event", "err_select",
             "err_create", "err_event"}

\* The payload is classifiable: an error event, or an event naming its call.
Classifiable(p) == IsError(p) \/ ~Falsy(p.CallSid)

\* C4: for every call on a classifiable payload, while the persistence step
\* runs the projection of the payload has been emitted exactly once; and when
\* the persistence step has failed, the call has returned False with that one
\* emit still delivered.
C4_EmitBeforePersistNotRolledBack ==
    \A self \in Procs :
        LET p == cur[self] IN
        Classifiable(p) =>
            /\ pc[self] \in StorePcs => emits[self] = <<Projection(p)>>
            /\ (Finished(self) /\ stored[self] = False)
                   => (emits[self] = <<Projection(p)>> /\ result[self] = False)

\* C4 witness: a classifiable call whose persistence step failed after the emit.
C4_Witness ==
    \E self \in Procs :
        /\ Classifiable(cur[self])
        /\ Finished(self)
        /\ stored[self] = False
        /\ Len(emits[self]) = 1

\* sio.emit raised in the finished call of self: it returned from the except
\* block without a result of store_event_in_database and without an emit.
EmitRaised(self) == Finished(self) /\ emits[self] = <<>>

\* C5 (as claimed): when the emit raised, the persistence step was still run
\* and the returned outcome is its outcome.
C5_EmitFailureStillPersists ==
    \A self \in Procs :
        EmitRaised(self) => (stored[self] # None /\ result[self] = stored[self])

\* A stored field differs from its earlier value only if that value was empty
\* and the event supplied a non-empty one, which is then the stored value.
OverwrittenOnlyIfEmpty(old, new, supplied) ==
    new # old => (Falsy(old) /\ ~Falsy(supplied) /\ new = supplied)

\* An empty field takes the non-empty value the event supplies.
FilledIfEmpty(old, new, supplied) ==
    (Falsy(old) /\ ~Falsy(supplied)) => new = supplied

\* C6: with calls processed one after the other, every Call that existed when
\* a call started is still there, and each of from_number, to_number and
\* direction differs from its value at the start only if that value was empty
\* and the event supplied a non-empty one; once the event has been merged
\* into its Call, an empty field holds the supplied non-empty value.
C6_MergeOnlyFillsEmptyFields ==
    LET p == cur[1] IN
    \A c0 \in before[1].calls :
        /\ CallRows(calls, c0.call_sid) # {}
        /\ \A c1 \in CallRows(calls, c0.call_sid) :
              /\ OverwrittenOnlyIfEmpty(c0.from_number, c1.from_number, p.From)
              /\ OverwrittenOnlyIfEmpty(c0.to_number, c1.to_number, p.To)
              /\ OverwrittenOnlyIfEmpty(c0.direction, c1.direction, p.Direction)
              /\ (Finished(1) /\ ~IsError(p) /\ loc[1].call.call_sid = c0.call_sid)
                   => /\ FilledIfEmpty(c0.from_number, c1.from_number, p.From)
                      /\ FilledIfEmpty(c0.to_number, c1.to_number, p.To)
                      /\ FilledIfEmpty(c0.direction, c1.direction, p.Direction)

\* C6 witness: an event supplying another From has been merged into a Call
\* whose from_number was already set.
C6_Witness ==
    LET p == cur[1] IN
    /\ Finished(1)
    /\ ~IsError(p)
    /\ \E c0 \in before[1].calls :
          /\ c0.call_sid = p.CallSid
          /\ loc[1].call.call_sid = c0.call_sid
          /\ ~Falsy(c0.from_number)
          /\ ~Falsy(p.From)
          /\ p.From # c0.from_number

\* C7 (as claimed): with calls processed one after the other, when no call is
\* running the status of every Call is the CallStatus of the latest call
\* event for it that carried a non-empty CallStatus.
C7_StatusIsLatestNonEmpty ==
    pc[1] = "idle" =>
        \A c \in calls :
            lastStatus[c.call_sid] # None => c.call_status = lastStatus[c.call_sid]

\* C8 (as claimed): a call on a payload whose type holds the error marker and
\* a call marker emits on new_error, leaves every existing Call as it was
\* (adding at most the placeholder), and has its event id in the error table
\* while adding nothing to the four call-event tables.
C8_ErrorMarkerTakesPrecedence ==
    LET p == cur[1] IN
    (Persisted(1) /\ IsError(p) /\ p.type \cap CallMarkers # {})
    => /\ emits[1] = <<Projection(p)>>
       /\ emits[1][1].channel = "new_error"
       /\ \A c \in before[1].calls : c \in calls
       /\ \A c \in calls \ before[1].calls :
              c = Inserted(PlaceholderCall(p.correlation_sid), c.created_at)
       /\ EventRows(events, "error", p.id) # {}
       /\ \A t \in CallTables :
              EventRows(events, t, p.id) = EventRows(before[1].events, t, p.id)

\* C9 (as claimed): when the two latest calls, a started with no other call
\* running and b started after it, were both call events for one Call that
\* existed when a started, and both have merged and returned, the Call row is
\* what merging a then b, or b then a, into the row of that time gives.
C9_NoLostUpdate ==
    \A a, b \in Procs :
        LET pa == cur[a]
            pb == cur[b] IN
        (/\ a # b
         /\ Finished(a) /\ Finished(b)
         /\ before[b].no = ingests
         /\ before[a].no + 1 = ingests
         /\ before[a].quiet
         /\ ~IsError(pa) /\ ~IsError(pb)
         /\ ~Falsy(pa.CallSid) /\ pa.CallSid = pb.CallSid
         /\ loc[a].call.call_sid = pa.CallSid
         /\ loc[b].call.call_sid = pb.CallSid)
        => \A c0 \in CallRows(before[a].calls, pa.CallSid) :
              CallRows(calls, pa.CallSid) \subseteq
                  {MergeCall(MergeCall(c0, pa), pb), MergeCall(MergeCall(c0, pb), pa)}

\* C10: under every interleaving of concurrent calls, the Call table holds at
\* most one row per call identifier.
C10_OneCallRowPerSid ==
    \A c \in calls : Cardinality(CallRows(calls, c.call_sid)) <= 1

\* C10 witness: a caller is about to INSERT a Call (through get_or_create or
\* as a placeholder) whose key another caller has taken since it looked.
C10_Witness ==
    \E self \in Procs :
        \/ pc[self] = "goc_insert" /\ ~CallPkFree(calls, cur[self].CallSid)
        \/ pc[self] = "err_create" /\ ~CallPkFree(calls, cur[self].correlation_sid)

\* The request parameters that get_or_create_call reads besides CallSid.
OptionalAbsent(p) ==
    p.From = None \/ p.To = None \/ p.Direction = None \/ p.CallStatus = None

\* The call created a Call for a CallSid that had none, and the event is not a
\* repeat of a stored one.
FirstForCall(self) ==
    LET p == cur[self] IN
    /\ Persisted(self)
    /\ IsCallEvent(p)
    /\ CallPkFree(before[self].calls, p.CallSid)
    /\ EventPkFree(before[self].events, StoreEventType(p), p.id)

\* C11 (as claimed): with calls processed one after the other, a Ringing,
\* Answered or Completed event for a call no event has been seen for returns
\* True, leaves exactly one Call for its CallSid, created from that payload,
\* and its event row references that Call.
C11_OutOfOrderCreatesCall ==
    LET p == cur[1] IN
    (FirstForCall(1) /\ StoreEventType(p) \in {"ringing", "answered", "completed"})
    => /\ result[1] = True
       /\ \E c \in calls : c.call_sid = p.CallSid /\ c.additional_data = p
       /\ Cardinality(CallRows(calls, p.CallSid)) = 1
       /\ \E e \in EventRows(events, StoreEventType(p), p.id) :
              e.call_sid = p.CallSid

\* C12 (as claimed): with calls processed one after the other, a call event
\* naming its call but lacking From, To, Direction or CallStatus returns True,
\* its event row is stored, and the Call it creates holds the empty string for
\* each absent field.
C12_AbsentFieldsStoredEmpty ==
    LET p == cur[1] IN
    (FirstForCall(1) /\ OptionalAbsent(p))
    => /\ result[1] = True
       /\ EventRows(events, StoreEventType(p), p.id) # {}
       /\ \E c \in calls :
              /\ c.call_sid = p.CallSid
              /\ c.from_number = GetOrEmpty(p.From)
              /\ c.to_number = GetOrEmpty(p.To)
              /\ c.direction = GetOrEmpty(p.Direction)
              /\ c.call_status = GetOrEmpty(p.CallStatus)

\* The placeholder Call for sid, whenever it was inserted.
IsPlaceholder(c, sid) == c = Inserted(PlaceholderCall(sid), c.created_at)

\* C13 (as claimed): with calls processed one after the other, a call on an
\* Error event whose non-empty correlation_sid named no Call when it started
\* returns True and leaves exactly one Call for that identifier, the
\* placeholder, referenced by the stored ErrorEvent row; when the Call
\* existed, the Call table is unchanged and the ErrorEvent row references it.
C13_ErrorWithoutCallMakesPlaceholder ==
    LET p == cur[1]
        sid == p.correlation_sid IN
    (/\ Persisted(1)
     /\ IsError(p)
     /\ ~Falsy(sid)
     /\ EventPkFree(before[1].events, "error", p.id))
    => /\ result[1] = True
       /\ \E e \in EventRows(events, "error", p.id) : e.call_sid = sid
       /\ Cardinality(CallRows(calls, sid)) = 1
       /\ IF CallPkFree(before[1].calls, sid)
          THEN /\ \A c \in CallRows(calls, sid) : IsPlaceholder(c, sid)
               /\ calls \ CallRows(calls, sid) = before[1].calls
          ELSE calls = before[1].calls

\* C13 restricted to the payloads the persistence step takes to its error
\* branch (type with the error marker and no call marker).
C13_ErrorBranchOnly ==
    StoreEventType(cur[1]) = "error" => C13_ErrorWithoutCallMakesPlaceholder

\* C14: under every interleaving of calls, no exception leaves
\* process_and_emit_event through its caller, and every call that has ended
\* has returned True or False.
C14_FailuresBecomeOutcome ==
    \A self \in Procs :
        /\ pc[self] # "escaped"
        /\ (pc[self] = "idle" /\ before[self].no > 0) => result[self] \in {True, False}

\* C14 witness: one call has ended on an exception raised outside the
\* persistence step (classification or emit) and another on an exception
\* raised inside it.
C14_Witness ==
    \E a, b \in Procs :
        /\ Finished(a) /\ emits[a] = <<>> /\ stored[a] = None /\ result[a] = False
        /\ Finished(b) /\ stored[b] = False /\ result[b] = False

\* The payload's type holds none of the five markers.
UnknownKind(p) == ~IsError(p) /\ StoreEventType(p) = None

\* What get_or_create_call makes of table tbl for payload p at time now: a
\* new Call from the payload, or the existing one with the payload merged.
Upserted(tbl, p, now) ==
    IF CallPkFree(tbl, p.CallSid)
    THEN tbl \cup {Inserted(NewCall(p), now)}
    ELSE SaveCall(tbl, MergeCall(CHOOSE c \in CallRows(tbl, p.CallSid) : TRUE, p))

\* C15 (as claimed): a call on a payload of unknown kind leaves the Call table
\* and the five event tables as they were when it started.
C15_UnknownKindPersistsNothing ==
    (Finished(1) /\ UnknownKind(cur[1]))
    => (calls = before[1].calls /\ events = before[1].events)

\* C15 (amended): with calls processed one after the other, a call on a
\* payload of unknown kind never changes the five event tables; when it
\* returns True the Call table is the one it started with after the Call
\* upsert for the payload's CallSid, and when it returns False the Call table
\* is unchanged.
C15_UnknownKindStoresOnlyCall ==
    LET p == cur[1] IN
    UnknownKind(p)
    => /\ events = before[1].events
       /\ Finished(1) =>
             calls = IF result[1] = True
                     THEN Upserted(before[1].calls, p, before[1].no)
                     ELSE before[1].calls

\* C15 witness: a call on a payload of unknown kind has returned True and the
\* Call table is not the one it started with.
C15_Witness ==
    /\ Finished(1)
    /\ UnknownKind(cur[1])
    /\ result[1] = True
    /\ calls # before[1].calls

\* The creation data of Call row c is what an INSERT of the code writes: the
\* raw payload of a non-error event naming the Call, or the placeholder note,
\* stamped with the time of a call that had started.
C16_CreationValues ==
    \A c \in calls :
        /\ c.created_at \in 1..ingests
        /\ \/ c.additional_data = PlaceholderCall(c.call_sid).additional_data
           \/ \E p \in SeqPayloads :
                 /\ ~IsError(p)
                 /\ p.CallSid = c.call_sid
                 /\ c.additional_data = p

\* Every Call row is still there after a step, with the created_at and the
\* additional_data it had.
C16_Kept ==
    \A c \in calls :
        /\ CallRows(calls', c.call_sid) # {}
        /\ \A d \in CallRows(calls', c.call_sid) :
              /\ d.created_at = c.created_at
              /\ d.additional_data = c.additional_data

\* C16: under every interleaving of calls, each Call row carries the creation
\* time and the additional_data its INSERT wrote (the raw payload of the
\* creating event, or the placeholder note), and no step of any later call
\* changes either of them.
C16_CreationDataWriteOnce == []C16_CreationValues /\ [][C16_Kept]_vars

\* C16 witness: a later call with another payload has merged into a Call
\* created by an earlier call, and has returned.
C16_Witness ==
    \E self \in Procs :
        LET p == cur[self] IN
        /\ Finished(self)
        /\ ~IsError(p)
        /\ ~loc[self].created
        /\ loc[self].call.call_sid = p.CallSid
        /\ \E c \in CallRows(calls, p.CallSid) :
              /\ c.additional_data # p
              /\ c.created_at < before[self].no

\* Every row of the four call-event tables references a Call row, and every
\* ErrorEvent row references a Call row or nothing.
C17_ReferencesExist ==
    \A e \in events :
        /\ e.table \in CallTables => e.call_sid # None
        /\ e.call_sid # None => CallRows(calls, e.call_sid) # {}

\* A step after which a Call is gone leaves no event row referencing it.
C17_DeleteCascades ==
    \A c \in calls :
        CallRows(calls', c.call_sid) = {}
        => \A e \in events' : e.call_sid # c.call_sid

\* C17: with one caller and an administrator deleting Calls at any moment,
\* each row of the four call-event tables references an existing Call (never
\* null), each ErrorEvent row references an existing Call or null, and the
\* deletion of a Call removes every event row referencing it.
C17_ReferentialOwnership == []C17_ReferencesExist /\ [][C17_DeleteCascades]_vars

\* C17 witness: the event row a successful call stored is gone again, its
\* Call having been deleted.
C17_Witness ==
    LET p == cur[1] IN
    /\ Finished(1)
    /\ result[1] = True
    /\ StoreEventType(p) # None
    /\ EventRows(events, StoreEventType(p), p.id) = {}
    /\ calls = {}

\* The body of a request is not a JSON document json.loads can decode.
DecodeFails(body) == json_loads(body).exc # None

\* C19 (as claimed): every request the view has answered got exactly one of
\* the three statuses and no exception left the view: 400 when the body was
\* declared JSON and failed to decode, 500 when another exception occurred,
\* 204 otherwise.
C19_WebhookStatusMapping ==
    \A i \in 1..Len(web.log) :
        LET r == web.log[i] IN
        /\ ~r.escaped
        /\ r.status = IF DeclaresJson(r.content_type) /\ DecodeFails(r.body)
                      THEN BadRequest
                      ELSE IF r.exc # None THEN ServerError
                      ELSE NoContent

\* The Asia/Kolkata hour at clock time c is outside [9, 17).
OutsideWindow(c) == KolkataHour(c) < 9 \/ KolkataHour(c) >= 17

\* C20: every call of send_performance_alert made while the Asia/Kolkata hour
\* was outside [9, 17) returned False and sent no request; every request ever
\* sent to Slack was sent by a call made inside the window, at the time of
\* that call, so nothing is held back and sent when the window opens.
C20_SuppressedNotQueued ==
    /\ \A i \in 1..Len(slack.log) :
          LET a == slack.log[i] IN
          (a.fn = "send_performance_alert" /\ OutsideWindow(a.clock))
          => (a.returned = False /\ ~a.posted)
    /\ \A j \in 1..Len(slack.posts) :
          slack.posts[j].alert_type \in AlertTypes =>
          /\ ~OutsideWindow(slack.posts[j].clock)
          /\ \E i \in 1..Len(slack.log) :
                /\ slack.log[i].posted
                /\ slack.log[i].clock = slack.posts[j].clock
                /\ slack.log[i].alert_type = slack.posts[j].alert_type
    /\ Len(slack.posts) = Cardinality({i \in 1..Len(slack.log) : slack.log[i].posted})

\* C20 witness: an alert was asked for outside the window, and the window has
\* since been entered.
C20_Witness ==
    /\ ~OutsideWindow(slack.clock)
    /\ \E i \in 1..Len(slack.log) :
          /\ slack.log[i].fn = "send_performance_alert"
          /\ OutsideWindow(slack.log[i].clock)
          /\ slack.log[i].alert_type \in AlertTypes

\* C21: every call of send_performance_alert or send_slack_notification whose
\* request to Slack raised or was answered not ok has returned False, and
\* every call has sent at most one request: the number of requests sent is
\* the number of calls that got as far as requests.post.
C21_AlertDeliveryBestEffort ==
    /\ \A i \in 1..Len(slack.log) :
          LET a == slack.log[i] IN
          /\ a.returned \in {True, False}
          /\ (a.posted /\ a.outcome \in {"raises", "not_ok"}) => a.returned = False
    /\ Len(slack.posts) = Cardinality({i \in 1..Len(slack.log) : slack.log[i].posted})

\* C21 witness: each of the two functions has been called with the request to
\* Slack failing.
C21_Witness ==
    \E i \in 1..Len(slack.log) :
        /\ slack.log[i].posted
        /\ slack.log[i].outcome = "raises"
        /\ slack.log[i].fn = "send_slack_notification"

\* C22 (as claimed): a call of process_and_emit_event that took more than the
\* slow-processing threshold of 2 seconds from its start to its return has
\* signalled the alert notifier with a slow_processing alert.
C22_SlowProcessingSignalled ==
    (Finished(1) /\ elapsed[1] > 2)
    => \E i \in 1..Len(slack.log) :
          /\ slack.log[i].fn = "send_performance_alert"
          /\ slack.log[i].alert_type = "slow_processing"

\* The timeline entries the rows referencing Call sid stand for.
TimelineOf(sid) ==
    {[event_id |-> e.event_id, event_type |-> e.table, timestamp |-> e.timestamp] :
        e \in {r \in events : r.call_sid = sid}}

\* Step of the detail endpoint answering as claimed: 404 'Call not found' and
\* no events for an unknown identifier; else every row referencing the Call
\* once, tagged with its kind, timestamps ascending.
C23_Answer ==
    (api' # api /\ api'.endpoint = "call-detail")
    => IF CallPkFree(calls, api'.arg)
       THEN /\ api'.status = NotFound
            /\ api'.error = "Call not found"
            /\ api'.events = <<>>
       ELSE /\ api'.status = Ok
            /\ {api'.events[i] : i \in 1..Len(api'.events)} = TimelineOf(api'.arg)
            /\ Len(api'.events) = Cardinality(TimelineOf(api'.arg))
            /\ \A i, j \in 1..Len(api'.events) :
                  i < j => api'.events[i].timestamp.secs <= api'.events[j].timestamp.secs

\* C23: every answer of the detail endpoint is, for an existing call
\* identifier, exactly the rows of the four call-event tables and the error
\* table that reference that Call, each once and tagged with its kind, in
\* ascending timestamp order, and for an unknown identifier 404 'Call not
\* found' with no events.
C23_CallTimeline == [][C23_Answer]_vars

\* C23 witness: the endpoint has answered with a timeline in which an error
\* row stands before a call-event row, against the order the tables are read.
C23_Witness ==
    /\ api.status = Ok
    /\ \E i, j \in 1..Len(api.events) :
          /\ i < j
          /\ api.events[i].event_type = "error"
          /\ api.events[j].event_type = "answered"
    /\ \E e \in events : e.call_sid # api.arg

\* C24 (as claimed): a call on an Error event leaves every Call row that
\* existed when it started as it was, and when correlation_sid is empty or
\* absent the Call table is unchanged and the ErrorEvent row is stored with a
\* null call reference.
C24_ErrorSkipsCallUpsert ==
    LET p == cur[1] IN
    (/\ Persisted(1)
     /\ IsError(p)
     /\ EventPkFree(before[1].events, "error", p.id))
    => /\ before[1].calls \subseteq calls
       /\ Falsy(p.correlation_sid)
          => /\ calls = before[1].calls
             /\ \E e \in EventRows(events, "error", p.id) : e.call_sid = None

\* C24 restricted to the payloads the persistence step takes to its error
\* branch (type with the error marker and no call marker).
C24_ErrorBranchOnly ==
    StoreEventType(cur[1]) = "error" => C24_ErrorSkipsCallUpsert

\* The payload's time is absent, empty or not a datetime.
NoUsableTime(p) == Falsy(p.time) \/ parse_datetime(p.time).null

\* C25 (as claimed): a call on a call event or pure Error event whose time is
\* absent, empty or unparseable, and whose id is not stored yet, sends a
\* projection stamped with the ingestion time, returns True and stores the
\* event row with a timestamp.
C25_TimestampFallback ==
    LET p == cur[1] IN
    (/\ Persisted(1)
     /\ IsCallEvent(p) \/ StoreEventType(p) = "error"
     /\ NoUsableTime(p)
     /\ EventPkFree(before[1].events, StoreEventType(p), p.id))
    => /\ emits[1] # <<>>
       /\ emits[1][Len(emits[1])].event_id = p.id
       /\ emits[1][Len(emits[1])].timestamp = "now"
       /\ result[1] = True
       /\ \E e \in EventRows(events, StoreEventType(p), p.id) : ~e.timestamp.null

\* The projection half of C25 for an absent or empty time, which the emit code
\* ('time' or now) does provide.
C25_ProjectionStampedWhenEmpty ==
    LET p == cur[1] IN
    (Persisted(1) /\ Falsy(p.time))
    => /\ emits[1] # <<>>
       /\ emits[1][Len(emits[1])].event_id = p.id
       /\ emits[1][Len(emits[1])].timestamp = "now"

\* The kind of an event as the specification names it: Error when the type
\* carries the error marker, else the call kind its type names.
KindOf(p) ==
    IF IsError(p) THEN "error"
    ELSE IF "call.initiated" \in p.type THEN "initiated"
    ELSE IF "call.ringing" \in p.type THEN "ringing"
    ELSE IF "call.answer" \in p.type THEN "answered"
    ELSE IF "call.completed" \in p.type THEN "completed"
    ELSE None

\* C26: a call that has returned True on an event of kind Initiated, Ringing,
\* Answered, Completed or Error has kept every event row there was and added
\* exactly one, keyed by the event's id, in the table of that kind, hence none
\* in the other four tables.
C26_KindToTable ==
    LET p == cur[1] IN
    (Persisted(1) /\ result[1] = True /\ KindOf(p) # None)
    => /\ before[1].events \subseteq events
       /\ Cardinality(events \ before[1].events) = 1
       /\ \A e \in events \ before[1].events :
             e.table = KindOf(p) /\ e.event_id = p.id

\* C26 witness: an Answered event has been persisted while rows of another
\* kind were already stored.
C26_Witness ==
    /\ Persisted(1)
    /\ result[1] = True
    /\ KindOf(cur[1]) = "answered"
    /\ \E e \in before[1].events : e.table = "error"

\* C27 (as claimed): process_and_emit_event has been called once for every
\* request the webhook view has answered with 204, and for no other request.
C27_AcceptedRequestIngested ==
    Cardinality({i \in 1..Len(web.log) : web.log[i].status = NoContent}) = ingests

\* C28 (as claimed): when two concurrent calls on Error events with distinct
\* ids and the same correlation_sid, which named no Call when either started,
\* have both ended, both have returned True, both ErrorEvent rows are stored
\* referencing that identifier, and there is exactly one Call for it.
C28_ConcurrentPlaceholderSafe ==
    LET p == cur[1]
        q == cur[2]
        sid == p.correlation_sid IN
    (/\ Persisted(1) /\ Persisted(2)
     /\ StoreEventType(p) = "error" /\ StoreEventType(q) = "error"
     /\ p.id # q.id
     /\ ~Falsy(sid) /\ q.correlation_sid = sid
     /\ CallPkFree(before[1].calls, sid) /\ CallPkFree(before[2].calls, sid)
     /\ EventPkFree(before[1].events, "error", p.id)
     /\ EventPkFree(before[2].events, "error", q.id))
    => /\ result[1] = True /\ result[2] = True
       /\ \E e \in EventRows(events, "error", p.id) : e.call_sid = sid
       /\ \E e \in EventRows(events, "error", q.id) : e.call_sid = sid
       /\ Cardinality(CallRows(calls, sid)) = 1

\* The finished call on a call event got its Call from get_or_create_call and
\* then failed in the persistence step, that is, at the event insert.
EventInsertFailed(self) ==
    /\ Finished(self)
    /\ IsCallEvent(cur[self])
    /\ stored[self] = False
    /\ loc[self].call.call_sid = cur[self].CallSid

\* C30: with calls processed one after the other, a call on a call event whose
\* event insert failed after get_or_create_call ran has returned False, and
\* the Call table holds what get_or_create_call made of it: the Call row
\* created, or the existing row with the payload's updates, is still there.
C30_CallUpsertNotRolledBack ==
    EventInsertFailed(1)
    => /\ result[1] = False
       /\ calls = Upserted(before[1].calls, cur[1], before[1].no)

\* C30 witness: a call has created a Call, failed at the event insert and
\* returned False, and the Call it created is in the table.
C30_Witness ==
    /\ EventInsertFailed(1)
    /\ CallPkFree(before[1].calls, cur[1].CallSid)
    /\ ~CallPkFree(calls, cur[1].CallSid)
    /\ EventPkFree(events, StoreEventType(cur[1]), cur[1].id)

\* The rows of the four call-event tables.
CallEventRows == {e \in events : e.table \in CallTables}

\* Row e is entry i of the endpoint's answer.
IsEntry(e, i) ==
    /\ api.events[i].event_type = e.table
    /\ api.events[i].event_id = e.event_id
    /\ api.events[i].timestamp = e.timestamp

SmallerOf(a, b) == IF a < b THEN a ELSE b

\* C29: an answer of the recent call events endpoint without all=true holds
\* min(limit, N) entries, N being the number of rows in the four call-event
\* tables; the entries are distinct rows of those tables, in non-increasing
\* timestamp order, and no row left out is newer than a row returned.
C29_RecentCallEvents ==
    (api.endpoint = "recent-call-events" /\ api.arg = "false")
    => LET out == api.events
           n == Len(api.events) IN
       /\ n = SmallerOf(RecentLimit, Cardinality(CallEventRows))
       /\ \A i \in 1..n : \E e \in CallEventRows : IsEntry(e, i)
       /\ \A i, j \in 1..n :
             i # j => <<out[i].event_type, out[i].event_id>>
                      # <<out[j].event_type, out[j].event_id>>
       /\ \A i, j \in 1..n : i < j => out[i].timestamp.secs >= out[j].timestamp.secs
       /\ \A e \in CallEventRows :
             (\A i \in 1..n : ~IsEntry(e, i))
             => \A i \in 1..n : e.timestamp.secs <= out[i].timestamp.secs

\* C29 witness: the endpoint has answered without all=true while one table
\* held more rows than the limit, and its answer draws on two tables.
C29_Witness ==
    /\ api.endpoint = "recent-call-events" /\ api.arg = "false"
    /\ \E t \in CallTables : Cardinality(RowsOfTable(events, t)) > RecentLimit
    /\ \E i, j \in 1..Len(api.events) :
          api.events[i].event_type # api.events[j].event_type
    /\ \E e \in events : e.table = "error"

\* Call row c was created as a placeholder from an Error event (C16: the
\* creation data of a row is never rewritten).
FromPlaceholder(c) ==
    c.additional_data = PlaceholderCall(c.call_sid).additional_data

\* What the claim expects of placeholder-born row c0 after call event p: empty
\* numbers filled, a supplied status taken over, direction still 'unknown'.
PlaceholderAfter(c0, p) ==
    [c0 EXCEPT
       !.direction = "unknown",
       !.from_number = IF c0.from_number = "" /\ ~Falsy(p.From) THEN p.From ELSE @,
       !.to_number = IF c0.to_number = "" /\ ~Falsy(p.To) THEN p.To ELSE @,
       !.call_status = IF ~Falsy(p.CallStatus) THEN p.CallStatus ELSE @]

\* C31: with calls processed one after the other, every Call row created as a
\* placeholder from an Error event has direction 'unknown' for good, and each
\* later call event for its identifier that reaches the persistence step
\* fills its empty from_number and to_number and takes over a supplied status
\* while leaving the direction 'unknown', whatever Direction it supplies.
C31_PlaceholderDirectionSticky ==
    /\ \A c \in calls : FromPlaceholder(c) => c.direction = "unknown"
    /\ LET p == cur[1] IN
       (Persisted(1) /\ IsCallEvent(p))
       => \A c0 \in CallRows(before[1].calls, p.CallSid) :
             FromPlaceholder(c0)
             => CallRows(calls, p.CallSid) = {PlaceholderAfter(c0, p)}

\* C31 witness: a second call event for a placeholder Call has supplied a
\* Direction, filled the to_number left empty by the first and changed the
\* status, and the direction is still 'unknown'.
C31_Witness ==
    LET p == cur[1] IN
    /\ Persisted(1)
    /\ IsCallEvent(p)
    /\ ~Falsy(p.Direction)
    /\ \E c0 \in CallRows(before[1].calls, p.CallSid) :
          /\ FromPlaceholder(c0)
          /\ c0.from_number # ""
          /\ c0.to_number = ""
          /\ \E c \in CallRows(calls, p.CallSid) :
                /\ c.to_number # ""
                /\ c.call_status # c0.call_status
                /\ c.direction = "unknown"

\* The channel the claim assigns to a payload.
ChannelOf(p) == IF ErrorMarker \in p.type THEN "new_error" ELSE "new_event"

\* C32: at every moment of every call, the call has emitted at most once, and
\* what it emitted carries the payload's event id on 'new_error' when the type
\* contains the error marker and on 'new_event' otherwise; a call that has
\* reached the persistence step has emitted exactly once, also when that step
\* failed or the event id was already stored.
C32_OneEmitOnMatchingChannel ==
    LET p == cur[1]
        log == emits[1] IN
    /\ Len(log) <= 1
    /\ \A i \in 1..Len(log) :
          /\ log[i].channel = ChannelOf(p)
          /\ log[i].event_id = p.id
    /\ Persisted(1) => Len(log) = 1

\* C32 witness: a call on an Error event whose id was already stored has
\* failed in the persistence step, having emitted once on 'new_error'.
C32_Witness ==
    LET p == cur[1] IN
    /\ Persisted(1)
    /\ stored[1] = False
    /\ StoreEventType(p) = "error"
    /\ ~EventPkFree(before[1].events, "error", p.id)
    /\ Len(emits[1]) = 1
    /\ emits[1][1].channel = "new_error"

====
